---- MODULE Spec2Model ----
(***************************************************************************)
(* Sale reversal and stock ledger of pulse-pos-admin.                      *)
(*                                                                         *)
(* Representation.  Every decimal number (quantities and amounts of money) *)
(* is an integer count of thousandths: 1.00 is 1000, 0.01 is 10, 0.004 is  *)
(* 4.  The store's columns are DECIMAL(10,2), so every stored value is a   *)
(* multiple of 10; a value of finer scale is rounded when it is written    *)
(* (DbDecimal).  "Cents" are integers.  Strings that the code takes apart  *)
(* (sale ids, receipt numbers) are sequences of one-character strings;     *)
(* strings that are only compared are TLA+ strings, "" being the missing   *)
(* (undefined, null or empty) value.                                       *)
(***************************************************************************)
EXTENDS Integers, Sequences, FiniteSets, TLC

\* ------------------------------------------------------------------ bounds
MaxReversals == 2     \* reversal sales the store may hold
MaxClock     == 1     \* Date.now() takes the values 0..MaxClock
MaxRandom    == 0     \* Math.floor(Math.random() * 1000) takes the values 0..MaxRandom
MaxEdits     == 1     \* StockAdjustment rows that manual stock edits may add

\* --------------------------------------------------------- small utilities
Min(a, b) == IF a < b THEN a ELSE b
Max(a, b) == IF a > b THEN a ELSE b

Get(map, key, default) == IF key \in DOMAIN map THEN map[key] ELSE default

Put(map, key, value) == (key :> value) @@ map

RECURSIVE SumSeq(_)
SumSeq(s) == IF s = <<>> THEN 0 ELSE Head(s) + SumSeq(Tail(s))

RECURSIVE Flatten(_)
Flatten(ss) == IF ss = <<>> THEN <<>> ELSE Head(ss) \o Flatten(Tail(ss))

\* Math.round of the rational n/d (d > 0): nearest integer, a tie going up.
MathRound(n, d) == (2 * n + d) \div (2 * d)

\* Rounding to two decimals, a tie going away from zero.
RoundHundredths(x) == IF x >= 0 THEN ((x + 5) \div 10) * 10 ELSE -(((-x + 5) \div 10) * 10)

\* A value as a DECIMAL(10,2) column keeps it.
DbDecimal(x) == RoundHundredths(x)

\* Number(x.toFixed(2))
toFixed2(x) == RoundHundredths(x)

\* toCents(value) = Math.round(value * 100)
toCents(value) == MathRound(value, 10)

\* centsToAmount(cents) = cents / 100
centsToAmount(cents) == cents * 10

\* ----------------------------------------------------------------- strings
startsWith(s, prefix) ==
  /\ Len(s) >= Len(prefix)
  /\ SubSeq(s, 1, Len(prefix)) = prefix

REV == <<"R", "E", "V", "-">>

RECURSIVE UpToDash(_)
UpToDash(s) ==
  IF s = <<>> \/ Head(s) = "-" THEN <<>> ELSE <<Head(s)>> \o UpToDash(Tail(s))

\* null is the empty sequence
parseSaleIdFromReversalReceipt(receiptNumber) ==
  IF ~startsWith(receiptNumber, REV) THEN <<>>
  ELSE UpToDash(SubSeq(receiptNumber, 5, Len(receiptNumber)))

Digit == <<"0", "1", "2", "3", "4", "5", "6", "7", "8", "9">>

\* REV-${id}-${Date.now()}-${Math.floor(Math.random() * 1000)}
ReceiptNumber(id, now, random) ==
  REV \o id \o <<"-", Digit[now + 1], "-", Digit[random + 1]>>

\* ---------------------------------------------------------------- messages
ErrSaleIdRequired   == "Sale id is required."
ErrUserIdRequired   == "userId is required."
ErrPaymentMethod    == "paymentMethod is invalid."
ErrSelectItem       == "Select at least one item to reverse."
ErrSaleNotFound     == "Sale not found."
ErrReverseReversal  == "Cannot reverse a reversal sale."
ErrExceeds          == "Requested reversal quantity exceeds remaining sold quantity."
ErrNotPartOfSale    == "Requested reversal item is not part of the sale."
ErrNothingLeft      == "There is nothing left to reverse for this sale."
ErrStockMissing     == "Stock record is missing for a product in this sale."
ErrUnable           == "Unable to reverse sale."
\* messages of errors the store or the runtime raises; none contains a known phrase
ErrUniqueConstraint == "Unique constraint failed on the fields: (receiptNumber)"
ErrRecordNotFound   == "Record to update not found."
ErrTransaction      == "Transaction API error"

\* ------------------------------------------------------ request validation
PaymentMethod == {"CASH", "MOBILE_MONEY", "CARD", "TRANSFER"}

\* String.prototype.toUpperCase on the strings requests carry
toUpperCase(str) ==
  CASE str = "cash"     -> "CASH"
    [] str = "card"     -> "CARD"
    [] str = "transfer" -> "TRANSFER"
    [] str = "bitcoin"  -> "BITCOIN"
    [] str = "supplier_add" -> "SUPPLIER_ADD"
    [] str = "sale_reversal" -> "SALE_REVERSAL"
    [] OTHER            -> str

\* lines 66-75: the entries of items that are kept
requestedItemsOf(items) ==
  SelectSeq(items, LAMBDA item : item.productId # "" /\ item.quantity > 0)

\* userId and paymentMethod let through unchecked
ValidationError_lenient(req) ==
  IF req.id = <<>> THEN ErrSaleIdRequired
  ELSE IF req.itemsProvided /\ requestedItemsOf(req.items) = <<>> THEN ErrSelectItem
  ELSE ""

\* lines 49-79: the 400 message of a request that is rejected before the
\* transaction starts, "" when it is let through
ValidationError(req) ==
  IF req.id = <<>> THEN ErrSaleIdRequired
  ELSE IF req.userId = "" THEN ErrUserIdRequired
  ELSE IF req.paymentMethod # "" /\ toUpperCase(req.paymentMethod) \notin PaymentMethod
    THEN ErrPaymentMethod
  ELSE IF req.itemsProvided /\ requestedItemsOf(req.items) = <<>> THEN ErrSelectItem
  ELSE ""

normalizedPaymentMethod(req) ==
  IF req.paymentMethod # "" THEN toUpperCase(req.paymentMethod) ELSE ""

\* ---------------------------------------------------------------- allocator
\* the price left out of the key
Key_productOnly(item) == <<item.productId, 0>>

\* lines 115 and 151: the key of a tier, productId:price in cents
Key(item) == <<item.productId, toCents(item.price)>>

\* lines 103-118: quantity already reversed per (productId, price in cents)
reversedQuantityByKey(existingReversals) ==
  LET items == Flatten([i \in 1..Len(existingReversals) |-> existingReversals[i].items])
      counted == {i \in 1..Len(items) : items[i].quantity # 0 /\ -items[i].quantity > 0}
      keys == {Key(items[i]) : i \in counted}
  IN [key \in keys |->
        SumSeq([i \in 1..Len(items) |->
                  IF i \in counted /\ Key(items[i]) = key THEN -items[i].quantity ELSE 0])]

\* lines 120-135
requestedQuantityBySaleItemId(requestedItems) ==
  LET ids == {requestedItems[i].saleItemId :
                i \in {j \in 1..Len(requestedItems) : requestedItems[j].saleItemId # ""}}
  IN [id \in ids |->
        SumSeq([i \in 1..Len(requestedItems) |->
                  IF requestedItems[i].saleItemId = id
                    THEN requestedItems[i].quantity ELSE 0])]

\* the entries with a saleItemId counted in the demand of their product too
requestedQuantityByProductId_all(requestedItems) ==
  LET ids == {requestedItems[i].productId : i \in 1..Len(requestedItems)}
  IN [id \in ids |->
        SumSeq([i \in 1..Len(requestedItems) |->
                  IF requestedItems[i].productId = id
                    THEN requestedItems[i].quantity ELSE 0])]

requestedQuantityByProductId(requestedItems) ==
  LET ids == {requestedItems[i].productId :
                i \in {j \in 1..Len(requestedItems) : requestedItems[j].saleItemId = ""}}
  IN [id \in ids |->
        SumSeq([i \in 1..Len(requestedItems) |->
                  IF requestedItems[i].saleItemId = "" /\ requestedItems[i].productId = id
                    THEN requestedItems[i].quantity ELSE 0])]

\* prior reversals forgotten
alreadyReversedForLine_forgetful(saleItem, remainingReversedToAllocateByKey) == 0

\* lines 150-155: what is left of a line, given the reversed quantity of its
\* tier that earlier lines of the loop have not absorbed
alreadyReversedForLine(saleItem, remainingReversedToAllocateByKey) ==
  Min(Max(Get(remainingReversedToAllocateByKey, Key(saleItem), 0), 0),
      Max(saleItem.quantity, 0))

\* a line request above what is left cut down to what is left
quantityToReverse_clamped(saleItem, remaining, bySaleItemId, byProductId, itemsProvided) ==
  IF saleItem.id \in DOMAIN bySaleItemId THEN Min(bySaleItemId[saleItem.id], remaining)
  ELSE IF saleItem.productId \in DOMAIN byProductId
    THEN Min(byProductId[saleItem.productId], remaining)
  ELSE IF itemsProvided THEN 0
  ELSE remaining

\* lines 165-172
quantityToReverse(saleItem, remaining, bySaleItemId, byProductId, itemsProvided) ==
  IF saleItem.id \in DOMAIN bySaleItemId THEN bySaleItemId[saleItem.id]
  ELSE IF saleItem.productId \in DOMAIN byProductId
    THEN Min(byProductId[saleItem.productId], remaining)
  ELSE IF itemsProvided THEN 0
  ELSE remaining

\* lines 149-191: one iteration of the loop over sale.items; st carries the
\* mutable maps of the loop, the lines pushed so far and the message thrown
AllocationStep(st, saleItem, bySaleItemId, itemsProvided) ==
  LET key == Key(saleItem)
      remainingReversalForKey == Get(st.remainingReversedToAllocateByKey, key, 0)
      already == alreadyReversedForLine(saleItem, st.remainingReversedToAllocateByKey)
      allocated == Put(st.remainingReversedToAllocateByKey, key,
                       remainingReversalForKey - already)
      remaining == saleItem.quantity - already
      qty == quantityToReverse(saleItem, remaining, bySaleItemId,
                               st.remainingRequestedByProductId, itemsProvided)
      st1 == [st EXCEPT !.remainingReversedToAllocateByKey = allocated]
  IN IF qty <= 0 THEN st1
     ELSE IF qty > remaining THEN [st1 EXCEPT !.error = ErrExceeds]
     ELSE [st1 EXCEPT
             !.remainingRequestedByProductId =
                IF saleItem.productId \in DOMAIN st.remainingRequestedByProductId
                   /\ saleItem.id \notin DOMAIN bySaleItemId
                  THEN Put(@, saleItem.productId, @[saleItem.productId] - qty)
                  ELSE @,
             !.linesToReverse =
                Append(@, [productId |-> saleItem.productId,
                           quantityToReverse |-> qty,
                           unitPrice |-> saleItem.price])]

RECURSIVE AllocationLoop(_, _, _, _)
AllocationLoop(st, saleItems, bySaleItemId, itemsProvided) ==
  IF saleItems = <<>> \/ st.error # "" THEN st
  ELSE AllocationLoop(AllocationStep(st, Head(saleItems), bySaleItemId, itemsProvided),
                      Tail(saleItems), bySaleItemId, itemsProvided)

\* only the entries with a saleItemId looked up
NotPartOfSale_linesOnly(sale, requestedItems) ==
  \E i \in 1..Len(requestedItems) :
    /\ requestedItems[i].saleItemId # ""
    /\ ~\E j \in 1..Len(sale.items) : sale.items[j].id = requestedItems[i].saleItemId

\* lines 193-205: some entry names a line or a product the sale does not have
NotPartOfSale(sale, requestedItems) ==
  \E i \in 1..Len(requestedItems) :
    LET item == requestedItems[i]
    IN IF item.saleItemId # ""
         THEN ~\E j \in 1..Len(sale.items) : sale.items[j].id = item.saleItemId
         ELSE ~\E j \in 1..Len(sale.items) : sale.items[j].productId = item.productId

\* lines 103-216: the lines to reverse, or the message of the error thrown
Allocate(sale, existingReversals, req) ==
  LET requestedItems == requestedItemsOf(req.items)
      st == AllocationLoop(
              [remainingRequestedByProductId |-> requestedQuantityByProductId(requestedItems),
               remainingReversedToAllocateByKey |-> reversedQuantityByKey(existingReversals),
               linesToReverse |-> <<>>,
               error |-> ""],
              sale.items, requestedQuantityBySaleItemId(requestedItems),
              req.itemsProvided)
  IN IF st.error # "" THEN st
     ELSE IF requestedItems # <<>> /\ NotPartOfSale(sale, requestedItems)
       THEN [st EXCEPT !.error = ErrNotPartOfSale]
     ELSE IF requestedItems # <<>>
             /\ \E productId \in DOMAIN st.remainingRequestedByProductId :
                  st.remainingRequestedByProductId[productId] > 0
       THEN [st EXCEPT !.error = ErrExceeds]
     ELSE IF st.linesToReverse = <<>> THEN [st EXCEPT !.error = ErrNothingLeft]
     ELSE st

\* ------------------------------------------------------- reversal payload
\* line 223: Math.round(unitPriceCents * line.quantityToReverse)
lineSubtotalCents(line) == MathRound(toCents(line.unitPrice) * line.quantityToReverse, 1000)

\* the whole discount of the original sale charged to every line
lineDiscountCents_byLineCount(subtotalCents, originalSubtotalCents, originalDiscountCents) ==
  originalDiscountCents

\* lines 226-227
lineDiscountCents(subtotalCents, originalSubtotalCents, originalDiscountCents) ==
  IF originalSubtotalCents > 0
    THEN MathRound(subtotalCents * originalDiscountCents, originalSubtotalCents)
    ELSE 0

\* lines 221-236
reversalItemsPayload(linesToReverse) ==
  [i \in 1..Len(linesToReverse) |->
     [id |-> "",
      productId |-> linesToReverse[i].productId,
      quantity |-> -linesToReverse[i].quantityToReverse,
      price |-> centsToAmount(toCents(linesToReverse[i].unitPrice)),
      total |-> centsToAmount(-lineSubtotalCents(linesToReverse[i]))]]

reversedSubtotalCents(linesToReverse) ==
  SumSeq([i \in 1..Len(linesToReverse) |-> lineSubtotalCents(linesToReverse[i])])

reversedDiscountCents(sale, linesToReverse) ==
  SumSeq([i \in 1..Len(linesToReverse) |->
            lineDiscountCents(lineSubtotalCents(linesToReverse[i]),
                              toCents(sale.subtotal), toCents(sale.discount))])

\* lines 238-240 and 262-273: the data of tx.sale.create, receiptNumber apart
ReversalData(sale, linesToReverse, req) ==
  [userId |-> req.userId,
   subtotal |-> centsToAmount(-reversedSubtotalCents(linesToReverse)),
   discount |-> centsToAmount(-reversedDiscountCents(sale, linesToReverse)),
   totalAmount |-> centsToAmount(-(reversedSubtotalCents(linesToReverse)
                                   - reversedDiscountCents(sale, linesToReverse))),
   paymentMethod |-> IF normalizedPaymentMethod(req) # ""
                       THEN normalizedPaymentMethod(req) ELSE sale.paymentMethod,
   createdAt |-> sale.createdAt,
   items |-> reversalItemsPayload(linesToReverse)]

\* lines 242-248: the products of the lines, in order of first appearance, and
\* the quantity to give back to each
RECURSIVE TouchedProducts(_, _)
TouchedProducts(linesToReverse, seen) ==
  IF linesToReverse = <<>> THEN <<>>
  ELSE IF Head(linesToReverse).productId \in seen
    THEN TouchedProducts(Tail(linesToReverse), seen)
    ELSE <<Head(linesToReverse).productId>>
           \o TouchedProducts(Tail(linesToReverse), seen \cup {Head(linesToReverse).productId})

incrementByProductId(linesToReverse) ==
  [productId \in {linesToReverse[i].productId : i \in 1..Len(linesToReverse)} |->
     SumSeq([i \in 1..Len(linesToReverse) |->
               IF linesToReverse[i].productId = productId
                 THEN linesToReverse[i].quantityToReverse ELSE 0])]

\* a row as the store keeps it: every decimal column is DECIMAL(10,2)
StoredItem(item) ==
  [item EXCEPT !.quantity = DbDecimal(@), !.price = DbDecimal(@), !.total = DbDecimal(@)]

StoredSale(sale) ==
  [sale EXCEPT !.subtotal = DbDecimal(@), !.discount = DbDecimal(@),
               !.totalAmount = DbDecimal(@),
               !.items = [i \in 1..Len(@) |-> StoredItem(@[i])]]

\* =================================================================== state
VARIABLES
  products,     \* Product table: the ids of its rows
  sales,        \* Sale table with the SaleItem rows of each sale, committed
  stock,        \* Stock table, committed: productId -> quantity
  adjustments,  \* StockAdjustment table, committed, in order of insertion
  now,          \* the clock Date.now() reads
  tx,           \* per request slot: the reversal request being served
  resp,         \* per request slot: the sale id of the last request and the response to it
  edit,         \* the product PATCH or DELETE request being served
  editResp      \* the response to the last product PATCH or DELETE request

vars == <<products, sales, stock, adjustments, now, tx, resp, edit, editResp>>

db == <<products, sales, stock, adjustments>>

Procs == {1, 2}

\* --------------------------------------------------------- the first rows
Item(id, productId, quantity, price) ==
  [id |-> id, productId |-> productId, quantity |-> quantity, price |-> price,
   total |-> centsToAmount(MathRound(toCents(price) * quantity, 1000))]

OriginalSale(id, receiptNumber, discount, paymentMethod, items) ==
  LET subtotal == SumSeq([i \in 1..Len(items) |-> items[i].total])
  IN [id |-> id, receiptNumber |-> receiptNumber, userId |-> "u0",
      subtotal |-> subtotal, discount |-> discount,
      totalAmount |-> subtotal - discount,
      paymentMethod |-> paymentMethod, createdAt |-> 0, items |-> items]

SaleA == <<"a">>
SaleB == <<"b", "-", "c">>

\* the sales a store may start with under id "a"
SalesA ==
  { \* 10 units at 2.00, discount 1.00
    OriginalSale(SaleA, <<"S", "1">>, 1000, "CASH",
                 <<Item("i1", "p1", 10000, 2000)>>),
    \* one product twice at the same price
    OriginalSale(SaleA, <<"S", "1">>, 500, "CASH",
                 <<Item("i1", "p1", 1000, 1000), Item("i2", "p1", 2000, 1000)>>),
    \* one product at two prices, a second product sold by the half unit
    OriginalSale(SaleA, <<"S", "1">>, 10, "CASH",
                 <<Item("i1", "p1", 1000, 1000), Item("i2", "p1", 1000, 30),
                   Item("i3", "p2", 500, 10)>>),
    \* one unit given away: subtotal 0
    OriginalSale(SaleA, <<"S", "1">>, 0, "CASH",
                 <<Item("i1", "p1", 1000, 0)>>) }

\* the sale the store holds under id "b-c"
SaleBOriginal ==
  OriginalSale(SaleB, <<"S", "2">>, 0, "CARD", <<Item("i9", "p1", 1000, 1000)>>)

InitialStocks == { ("p1" :> 5000) @@ ("p2" :> 0), ("p1" :> 5000) }

InitialAdjustment(productId, quantity) ==
  [productId |-> productId, type |-> "INITIAL_STOCK", quantityBefore |-> 0,
   quantityAfter |-> quantity, quantityChange |-> quantity, reason |-> "",
   userId |-> ""]

NoSale ==
  [id |-> <<>>, receiptNumber |-> <<>>, userId |-> "", subtotal |-> 0, discount |-> 0,
   totalAmount |-> 0, paymentMethod |-> "", createdAt |-> 0, items |-> <<>>]

NoRequest ==
  [id |-> <<>>, userId |-> "", paymentMethod |-> "", itemsProvided |-> FALSE,
   items |-> <<>>]

IdleTx ==
  [pc |-> "idle", req |-> NoRequest, sale |-> NoSale, linesToReverse |-> <<>>,
   k |-> 0, stockBeforeByProductId |-> <<>>, created |-> NoSale,
   updated |-> <<>>, adjusted |-> <<>>]

NoResponse ==
  [id |-> <<>>, status |-> 0, error |-> "", reversal |-> NoSale,
   reversesSaleId |-> <<>>]

\* A field of a PATCH body is "undefined" when absent.  stock is "undefined",
\* "NaN" (Number(stock) is NaN) or "number", its value then being quantity;
\* costPrice and sellingPrice likewise, their values not being modelled.
NoEdit ==
  [id |-> "", name |-> "undefined", sku |-> "undefined", costPrice |-> "undefined",
   sellingPrice |-> "undefined", stock |-> "undefined", quantity |-> 0,
   stockAdjustmentType |-> "", userId |-> "", reason |-> "undefined"]

IdleEdit ==
  [pc |-> "idle", req |-> NoEdit, quantityBefore |-> 0, updated |-> <<>>,
   adjusted |-> <<>>]

NoEditResponse == [status |-> 0, error |-> ""]

Init ==
  /\ products = {"p1", "p2"}
  /\ \E saleA \in SalesA : sales = <<saleA, SaleBOriginal>>
  /\ stock \in InitialStocks
  /\ adjustments = <<InitialAdjustment("p1", 5000)>>
  /\ now = 0
  /\ tx = [p \in Procs |-> IdleTx]
  /\ resp = [p \in Procs |-> NoResponse]
  /\ edit = IdleEdit
  /\ editResp = NoEditResponse

\* ---------------------------------------------------------------- requests
Entry(saleItemId, productId, quantity) ==
  [saleItemId |-> saleItemId, productId |-> productId, quantity |-> quantity]

\* quantities a request entry asks for: 0.004, 1, 2, 4, 6 and 7 units
RequestQuantities == {4, 1000, 2000, 4000, 6000, 7000}
PairQuantities == {4, 1000}

\* entries naming a line (with the product the caller shows for it) or a
\* product; "ix" and "px" are on no sale
LineEntries(quantities) ==
  {Entry(l[1], l[2], q) :
     l \in {<<"i1", "p1">>, <<"i2", "p1">>, <<"i3", "p2">>, <<"ix", "p1">>},
     q \in quantities}

ProductEntries(quantities) ==
  {Entry("", productId, q) : productId \in {"p1", "p2", "px"}, q \in quantities}

\* entries that the filter of lines 66-75 drops
DroppedEntries == {Entry("i1", "", 1000), Entry("", "p1", 0)}

ItemLists ==
  {<<>>}
  \cup {<<e>> : e \in LineEntries(RequestQuantities) \cup ProductEntries(RequestQuantities)
                      \cup DroppedEntries}
  \cup {<<e1, e2>> : e1 \in DroppedEntries, e2 \in LineEntries({1000})}

PairLists ==
  {<<e1, e2>> : e1 \in LineEntries(PairQuantities) \cup ProductEntries(PairQuantities),
                e2 \in {Entry("i1", "p1", 4), Entry("i2", "p1", 1000),
                        Entry("", "p1", 1000), Entry("", "p2", 4)}}

\* the sale ids a request may name: those of the store, and one of no sale
TargetIds == {sales[i].id : i \in 1..Len(sales)} \cup {<<"z">>}

ReverseRequests ==
  \* without an items field
  [id : TargetIds \cup {<<>>}, userId : {"u1", ""}, paymentMethod : {"", "card", "bitcoin"},
   itemsProvided : {FALSE}, items : {<<>>}]
  \cup
  \* with an items field
  [id : {SaleA}, userId : {"u1"}, paymentMethod : {""},
   itemsProvided : {TRUE}, items : ItemLists]
  \cup
  [id : TargetIds, userId : {"u1"}, paymentMethod : {""},
   itemsProvided : {TRUE}, items : {<<Entry("", "p1", 1000)>>}]
  \cup
  [id : {SaleA}, userId : {"u1"}, paymentMethod : {""},
   itemsProvided : {TRUE}, items : PairLists]

\* ---------------------------------------------------------------- responses
\* lines 343-350: the messages the catch block answers with status 400; each
\* message thrown at lines 89, 93, 179, 197, 203, 209, 215 and 254 includes,
\* letter for letter, one of the six phrases the catch block looks for
KnownErrors ==
  {ErrSaleNotFound, ErrReverseReversal, ErrNothingLeft, ErrExceeds, ErrNotPartOfSale,
   ErrStockMissing}

\* a catch block without the list of known messages
Caught_generic(id, message) ==
  [NoResponse EXCEPT !.id = id, !.status = 500, !.error = ErrUnable]

\* lines 340-358: the response to an error thrown inside the try block
Caught(id, message) ==
  [NoResponse EXCEPT !.id = id,
                     !.status = IF message \in KnownErrors THEN 400 ELSE 500,
                     !.error = IF message \in KnownErrors THEN message ELSE ErrUnable]

\* lines 50, 54, 61, 78
Rejected(id, message) ==
  [NoResponse EXCEPT !.id = id, !.status = 400, !.error = message]

\* lines 308-339
Created(id, reversalSale) ==
  [NoResponse EXCEPT !.id = id, !.status = 201, !.reversal = reversalSale,
                     !.reversesSaleId = parseSaleIdFromReversalReceipt(reversalSale.receiptNumber)]

\* ------------------------------------------------------------------ queries
\* the check of line 92 left out
isReversal_never(sale) == FALSE

\* line 92
isReversal(sale) == startsWith(sale.receiptNumber, REV)

\* tx.sale.findUnique({ where: { id } }): the sales with that id (at most one)
findUnique(id) == SelectSeq(sales, LAMBDA sale : sale.id = id)

\* the reversals of the sale not read
existingReversals_none(id) == <<>>

\* lines 96-101: tx.sale.findMany, receiptNumber startsWith REV-${id}-
existingReversals(id) ==
  SelectSeq(sales, LAMBDA sale : startsWith(sale.receiptNumber, REV \o id \o <<"-">>))

InFlight(p) == tx[p].pc \notin {"idle", "findMany"}

ReversalCount ==
  Len(SelectSeq(sales, LAMBDA sale : startsWith(sale.receiptNumber, REV))) + Cardinality({p \in Procs : InFlight(p)})

\* a stock row that another open transaction has written is locked until that
\* transaction ends
Locked(p, productId) ==
  \/ \E q \in Procs \ {p} : productId \in DOMAIN tx[q].updated
  \/ productId \in DOMAIN edit.updated

LockedByReversal(productId) ==
  \E q \in Procs : productId \in DOMAIN tx[q].updated

\* no request is being served
Quiet == edit.pc = "idle" /\ \A q \in Procs : tx[q].pc = "idle"

\* ================================================= POST /api/sales/[id]/reverse
\* lines 44-94: the request is validated, the transaction opens and reads the
\* sale.  With oneAtATime, a request is taken only when no other is in progress.
Begin(p, requests, oneAtATime) ==
  /\ tx[p].pc = "idle"
  /\ oneAtATime => Quiet
  /\ \E req \in requests :
       LET invalid == ValidationError(req)
           found == findUnique(req.id)
       IN IF invalid # ""
            THEN /\ resp' = [resp EXCEPT ![p] = Rejected(req.id, invalid)]
                 /\ tx' = tx
          ELSE IF found = <<>>
            THEN /\ resp' = [resp EXCEPT ![p] = Caught(req.id, ErrSaleNotFound)]
                 /\ tx' = tx
          ELSE IF isReversal(found[1])
            THEN /\ resp' = [resp EXCEPT ![p] = Caught(req.id, ErrReverseReversal)]
                 /\ tx' = tx
          ELSE /\ tx' = [tx EXCEPT ![p] = [IdleTx EXCEPT !.pc = "findMany", !.req = req,
                                                         !.sale = found[1]]]
               /\ resp' = [resp EXCEPT ![p] = NoResponse]
  /\ UNCHANGED <<db, now, edit, editResp>>

\* lines 96-248: the transaction reads the reversals of the sale and allocates
FindReversals(p) ==
  /\ tx[p].pc = "findMany"
  /\ LET t == tx[p]
         allocation == Allocate(t.sale, existingReversals(t.req.id), t.req)
     IN IF allocation.error # ""
          THEN /\ resp' = [resp EXCEPT ![p] = Caught(t.req.id, allocation.error)]
               /\ tx' = [tx EXCEPT ![p] = IdleTx]
          ELSE /\ ReversalCount < MaxReversals
               /\ tx' = [tx EXCEPT ![p] = [t EXCEPT !.pc = "findStock", !.k = 1,
                                             !.linesToReverse = allocation.linesToReverse]]
               /\ resp' = resp
  /\ UNCHANGED <<db, now, edit, editResp>>

\* lines 250-257: one iteration of the loop of stock lookups
FindStock(p) ==
  /\ tx[p].pc = "findStock"
  /\ LET t == tx[p]
         touched == TouchedProducts(t.linesToReverse, {})
         productId == touched[t.k]
     IN IF productId \notin DOMAIN stock
          THEN /\ resp' = [resp EXCEPT ![p] = Caught(t.req.id, ErrStockMissing)]
               /\ tx' = [tx EXCEPT ![p] = IdleTx]
          ELSE /\ tx' = [tx EXCEPT ![p] =
                           [t EXCEPT !.stockBeforeByProductId = Put(@, productId, stock[productId]),
                                     !.k = IF t.k = Len(touched) THEN 0 ELSE t.k + 1,
                                     !.pc = IF t.k = Len(touched) THEN "createSale" ELSE @]]
               /\ resp' = resp
  /\ UNCHANGED <<db, now, edit, editResp>>

\* lines 259-275: tx.sale.create with its nested SaleItem rows.  The unique
\* index on receiptNumber rejects a number a committed sale has, and makes the
\* insert wait while an open transaction has inserted the same number.
CreateSale(p) ==
  /\ tx[p].pc = "createSale"
  /\ \E random \in 0..MaxRandom :
       LET t == tx[p]
           receiptNumber == ReceiptNumber(t.req.id, now, random)
           data == ReversalData(t.sale, t.linesToReverse, t.req)
           row == StoredSale([id |-> <<"r">> \o SubSeq(receiptNumber, 5, Len(receiptNumber)),
                              receiptNumber |-> receiptNumber] @@ data)
       IN /\ \A q \in Procs \ {p} : tx[q].created.receiptNumber # receiptNumber
          /\ IF \E i \in 1..Len(sales) : sales[i].receiptNumber = receiptNumber
               THEN /\ resp' = [resp EXCEPT ![p] = Caught(t.req.id, ErrUniqueConstraint)]
                    /\ tx' = [tx EXCEPT ![p] = IdleTx]
               ELSE /\ tx' = [tx EXCEPT ![p] = [t EXCEPT !.pc = "updateStock", !.k = 1,
                                                         !.created = row]]
                    /\ resp' = resp
  /\ UNCHANGED <<db, now, edit, editResp>>

\* lines 283-286: tx.stock.update, quantity: { increment }, of one product
UpdateStock(p) ==
  /\ tx[p].pc = "updateStock"
  /\ LET t == tx[p]
         touched == TouchedProducts(t.linesToReverse, {})
         productId == touched[t.k]
         quantity == incrementByProductId(t.linesToReverse)[productId]
     IN /\ ~Locked(p, productId)
        /\ IF productId \notin DOMAIN stock
             THEN /\ resp' = [resp EXCEPT ![p] = Caught(t.req.id, ErrRecordNotFound)]
                  /\ tx' = [tx EXCEPT ![p] = IdleTx]
             ELSE /\ tx' = [tx EXCEPT ![p] =
                              [t EXCEPT !.updated = Put(@, productId,
                                                        DbDecimal(stock[productId] + quantity)),
                                        !.k = IF t.k = Len(touched) THEN 1 ELSE t.k + 1,
                                        !.pc = IF t.k = Len(touched)
                                                 THEN "createAdjustment" ELSE @]]
                  /\ resp' = resp
  /\ UNCHANGED <<db, now, edit, editResp>>

\* lines 279-281 and 288-297: the StockAdjustment row of one product
ReversalAdjustment(productId, quantity, stockBeforeByProductId, userId) ==
  LET quantityBefore == Get(stockBeforeByProductId, productId, 0)
      quantityChange == toFixed2(quantity)
      quantityAfter == toFixed2(quantityBefore + quantityChange)
  IN [productId |-> productId, type |-> "SALE_REVERSAL",
      quantityBefore |-> DbDecimal(quantityBefore),
      quantityAfter |-> DbDecimal(quantityAfter),
      quantityChange |-> DbDecimal(quantityChange),
      reason |-> "", userId |-> userId]

CreateAdjustment(p) ==
  /\ tx[p].pc = "createAdjustment"
  /\ LET t == tx[p]
         touched == TouchedProducts(t.linesToReverse, {})
         productId == touched[t.k]
         quantity == incrementByProductId(t.linesToReverse)[productId]
     IN tx' = [tx EXCEPT ![p] =
                 [t EXCEPT !.adjusted = Append(@, ReversalAdjustment(productId, quantity,
                                                    t.stockBeforeByProductId, t.req.userId)),
                           !.k = IF t.k = Len(touched) THEN 0 ELSE t.k + 1,
                           !.pc = IF t.k = Len(touched) THEN "commit" ELSE @]]
  /\ UNCHANGED <<db, now, resp, edit, editResp>>

\* lines 301-339: the callback returns, the transaction commits, 201 is sent
Commit(p) ==
  /\ tx[p].pc = "commit"
  /\ sales' = Append(sales, tx[p].created)
  /\ stock' = tx[p].updated @@ stock
  /\ adjustments' = adjustments \o tx[p].adjusted
  /\ resp' = [resp EXCEPT ![p] = Created(tx[p].req.id, tx[p].created)]
  /\ tx' = [tx EXCEPT ![p] = IdleTx]
  /\ UNCHANGED <<products, now, edit, editResp>>

\* a failure that leaves the stock updates made so far in place
Abort_partial(p) ==
  /\ tx[p].pc # "idle"
  /\ resp' = [resp EXCEPT ![p] = Caught(tx[p].req.id, ErrTransaction)]
  /\ tx' = [tx EXCEPT ![p] = IdleTx]
  /\ stock' = tx[p].updated @@ stock
  /\ UNCHANGED <<products, sales, adjustments, now, edit, editResp>>

\* The transaction fails at any point (timeout of 60000 ms, connection lost, a
\* deadlock the store breaks): it is rolled back and the catch block answers.
Abort(p) ==
  /\ tx[p].pc # "idle"
  /\ resp' = [resp EXCEPT ![p] = Caught(tx[p].req.id, ErrTransaction)]
  /\ tx' = [tx EXCEPT ![p] = IdleTx]
  /\ UNCHANGED <<db, now, edit, editResp>>

Tick ==
  /\ now < MaxClock
  /\ now' = now + 1
  /\ UNCHANGED <<db, tx, resp, edit, editResp>>

Reverse(p, requests, oneAtATime) ==
  \/ Begin(p, requests, oneAtATime)
  \/ FindReversals(p)
  \/ FindStock(p)
  \/ CreateSale(p)
  \/ UpdateStock(p)
  \/ CreateAdjustment(p)
  \/ Commit(p)
  \/ Abort(p)

\* ================================================ PATCH /api/products/[id]
ErrNameEmpty      == "Name cannot be empty."
ErrSkuEmpty       == "SKU cannot be empty."
ErrCostInvalid    == "Cost price must be a valid number."
ErrSellingInvalid == "Selling price must be a valid number."
ErrStockInvalid   == "Stock must be a valid number."
ErrTypeRequired   == "A valid stock adjustment type is required."
ErrReasonRequired == "Reason is required for correction adjustments."
ErrNoFields       == "No valid fields provided for update."
ErrUnableUpdate   == "Unable to update product."

\* route.ts lines 18-25
stockAdjustmentTypes ==
  {"SUPPLIER_ADD", "DAMAGE_EXPIRED_REMOVE", "BULK_TO_SINGLES", "SINGLES_TO_BULK",
   "INITIAL_STOCK", "CORRECT_ENTRY_ERROR"}

\* String.prototype.trim on the strings requests carry
trim(str) == IF str = " " THEN "" ELSE str

\* route.ts line 66
normalizedAdjustmentType(req) ==
  IF req.stockAdjustmentType # "" THEN toUpperCase(req.stockAdjustmentType) ELSE ""

\* route.ts line 67; null is ""
normalizedReason(req) == IF req.reason # "undefined" THEN trim(req.reason) ELSE ""

\* route.ts lines 34-91: the 400 message of a rejected body, "" when it passes
EditValidationError(req) ==
  IF req.name # "undefined" /\ trim(req.name) = "" THEN ErrNameEmpty
  ELSE IF req.sku # "undefined" /\ trim(req.sku) = "" THEN ErrSkuEmpty
  ELSE IF req.costPrice = "NaN" THEN ErrCostInvalid
  ELSE IF req.sellingPrice = "NaN" THEN ErrSellingInvalid
  ELSE IF req.stock = "NaN" THEN ErrStockInvalid
  ELSE IF req.stock # "undefined"
          /\ (normalizedAdjustmentType(req) = ""
              \/ normalizedAdjustmentType(req) \notin stockAdjustmentTypes)
    THEN ErrTypeRequired
  ELSE IF req.stock # "undefined"
          /\ normalizedAdjustmentType(req) = "CORRECT_ENTRY_ERROR"
          /\ normalizedReason(req) = ""
    THEN ErrReasonRequired
  ELSE IF /\ req.name = "undefined" /\ req.sku = "undefined"
          /\ req.costPrice = "undefined" /\ req.sellingPrice = "undefined"
          /\ req.stock = "undefined"
    THEN ErrNoFields
  ELSE ""

\* the change taken to be the new quantity
editQuantityChange_absolute(quantityAfter, quantityBefore) == toFixed2(quantityAfter)

\* route.ts line 110
editQuantityChange(quantityAfter, quantityBefore) == toFixed2(quantityAfter - quantityBefore)

\* the reason stored whatever the type
EditAdjustment_anyReason(req, quantityBefore) ==
  [productId |-> req.id, type |-> normalizedAdjustmentType(req),
   quantityBefore |-> DbDecimal(quantityBefore),
   quantityAfter |-> DbDecimal(req.quantity),
   quantityChange |-> DbDecimal(editQuantityChange(req.quantity, quantityBefore)),
   reason |-> normalizedReason(req),
   userId |-> req.userId]

\* route.ts lines 110-122: the StockAdjustment row of a stock edit
EditAdjustment(req, quantityBefore) ==
  [productId |-> req.id, type |-> normalizedAdjustmentType(req),
   quantityBefore |-> DbDecimal(quantityBefore),
   quantityAfter |-> DbDecimal(req.quantity),
   quantityChange |-> DbDecimal(editQuantityChange(req.quantity, quantityBefore)),
   reason |-> IF normalizedAdjustmentType(req) = "CORRECT_ENTRY_ERROR"
                THEN normalizedReason(req) ELSE "",
   userId |-> req.userId]

ManualRows == SelectSeq(adjustments, LAMBDA row : row.type # "SALE_REVERSAL")

\* route.ts lines 29-101: the body is validated, the transaction opens and
\* reads the stock row of the product
EditBegin(requests, oneAtATime) ==
  /\ edit.pc = "idle"
  /\ oneAtATime => Quiet
  /\ Len(ManualRows) <= MaxEdits
  /\ \E req \in requests :
       IF EditValidationError(req) # ""
         THEN /\ editResp' = [status |-> 400, error |-> EditValidationError(req)]
              /\ edit' = edit
         ELSE /\ edit' = [IdleEdit EXCEPT !.pc = "update", !.req = req,
                                          !.quantityBefore =
                                             IF req.stock # "undefined"
                                               THEN Get(stock, req.id, 0) ELSE 0]
              /\ editResp' = NoEditResponse
  /\ UNCHANGED <<db, now, tx, resp>>

\* route.ts lines 103-107: tx.product.update with the nested upsert of the
\* stock row, which waits for a transaction that has locked that row
EditUpdate ==
  /\ edit.pc = "update"
  /\ LET req == edit.req
     IN IF req.id \notin products
          THEN /\ editResp' = [status |-> 500, error |-> ErrUnableUpdate]
               /\ edit' = IdleEdit
          ELSE /\ req.stock # "undefined" => ~LockedByReversal(req.id)
               /\ edit' = [edit EXCEPT
                             !.updated = IF req.stock # "undefined"
                                           THEN (req.id :> DbDecimal(req.quantity)) ELSE @,
                             !.pc = IF req.stock # "undefined"
                                       /\ editQuantityChange(req.quantity,
                                                             edit.quantityBefore) # 0
                                      THEN "createAdjustment" ELSE "commit"]
               /\ editResp' = editResp
  /\ UNCHANGED <<db, now, tx, resp>>

\* route.ts lines 109-124
EditCreateAdjustment ==
  /\ edit.pc = "createAdjustment"
  /\ edit' = [edit EXCEPT !.adjusted = <<EditAdjustment(edit.req, edit.quantityBefore)>>,
                          !.pc = "commit"]
  /\ UNCHANGED <<db, now, tx, resp, editResp>>

\* route.ts lines 126-129
EditCommit ==
  /\ edit.pc = "commit"
  /\ stock' = edit.updated @@ stock
  /\ adjustments' = adjustments \o edit.adjusted
  /\ editResp' = [status |-> 200, error |-> ""]
  /\ edit' = IdleEdit
  /\ UNCHANGED <<products, sales, now, tx, resp>>

\* route.ts lines 130-134: the transaction fails and is rolled back
EditAbort ==
  /\ edit.pc \in {"update", "createAdjustment", "commit"}
  /\ editResp' = [status |-> 500, error |-> ErrUnableUpdate]
  /\ edit' = IdleEdit
  /\ UNCHANGED <<db, now, tx, resp>>

Edit(requests, oneAtATime) ==
  \/ EditBegin(requests, oneAtATime)
  \/ EditUpdate
  \/ EditCreateAdjustment
  \/ EditCommit
  \/ EditAbort

\* =============================================== DELETE /api/products/[id]
ErrUnableDelete == "Unable to delete product."

\* the rows of a sale without its lines of a product
WithoutProduct(sale, id) ==
  [sale EXCEPT !.items = SelectSeq(@, LAMBDA item : item.productId # id)]

\* route.ts lines 139-141: prisma.saleItem.deleteMany, a statement of its own
DeleteSaleItems(ids, oneAtATime) ==
  /\ edit.pc = "idle"
  /\ oneAtATime => Quiet
  /\ \E id \in ids :
       /\ sales' = [i \in 1..Len(sales) |-> WithoutProduct(sales[i], id)]
       /\ edit' = [IdleEdit EXCEPT !.pc = "deleteStock", !.req = [NoEdit EXCEPT !.id = id]]
  /\ editResp' = NoEditResponse
  /\ UNCHANGED <<products, stock, adjustments, now, tx, resp>>

\* route.ts line 142: prisma.stock.deleteMany, which waits for a transaction
\* that has locked the row
DeleteStock ==
  /\ edit.pc = "deleteStock"
  /\ ~LockedByReversal(edit.req.id)
  /\ stock' = [productId \in DOMAIN stock \ {edit.req.id} |-> stock[productId]]
  /\ edit' = [edit EXCEPT !.pc = "deleteProduct"]
  /\ UNCHANGED <<products, sales, adjustments, now, tx, resp, editResp>>

\* a delete that leaves the StockAdjustment rows of the product in place
DeleteProduct_keepingRows ==
  /\ edit.pc = "deleteProduct"
  /\ LET id == edit.req.id
     IN IF \/ id \notin products
           \/ \E i \in 1..Len(sales) : \E j \in 1..Len(sales[i].items) :
                sales[i].items[j].productId = id
          THEN /\ editResp' = [status |-> 500, error |-> ErrUnableDelete]
               /\ UNCHANGED <<products, stock, adjustments>>
          ELSE /\ products' = products \ {id}
               /\ stock' = [productId \in DOMAIN stock \ {id} |-> stock[productId]]
               /\ adjustments' = adjustments
               /\ editResp' = [status |-> 200, error |-> ""]
  /\ edit' = IdleEdit
  /\ UNCHANGED <<sales, now, tx, resp>>

\* route.ts lines 143-149: prisma.product.delete.  It fails when the product
\* does not exist or a SaleItem row still refers to it (migration.sql line
\* 142, ON DELETE RESTRICT); the Stock and StockAdjustment rows of the
\* product go with it (migration.sql lines 133 and 145, ON DELETE CASCADE).
DeleteProduct ==
  /\ edit.pc = "deleteProduct"
  /\ LET id == edit.req.id
     IN IF \/ id \notin products
           \/ \E i \in 1..Len(sales) : \E j \in 1..Len(sales[i].items) :
                sales[i].items[j].productId = id
          THEN /\ editResp' = [status |-> 500, error |-> ErrUnableDelete]
               /\ UNCHANGED <<products, stock, adjustments>>
          ELSE /\ products' = products \ {id}
               /\ stock' = [productId \in DOMAIN stock \ {id} |-> stock[productId]]
               /\ adjustments' = SelectSeq(adjustments, LAMBDA row : row.productId # id)
               /\ editResp' = [status |-> 200, error |-> ""]
  /\ edit' = IdleEdit
  /\ UNCHANGED <<sales, now, tx, resp>>

\* route.ts lines 146-149: a statement fails (connection lost); the
\* statements before it have taken effect, nothing is rolled back
DeleteAbort ==
  /\ edit.pc \in {"deleteStock", "deleteProduct"}
  /\ editResp' = [status |-> 500, error |-> ErrUnableDelete]
  /\ edit' = IdleEdit
  /\ UNCHANGED <<db, now, tx, resp>>

Delete(ids, oneAtATime) ==
  \/ DeleteSaleItems(ids, oneAtATime)
  \/ DeleteStock
  \/ DeleteProduct
  \/ DeleteAbort

StockEdit(id, quantity, type, reason, userId) ==
  [NoEdit EXCEPT !.id = id, !.stock = "number", !.quantity = quantity,
                 !.stockAdjustmentType = type, !.reason = reason, !.userId = userId]

\* PATCH bodies: stock set to 5, 7, 5.004 or 0.005 units, other fields,
\* invalid ones.  0.005 is the one value here that lies halfway between two
\* hundredths: as doubles 0.005, 0.005 - 0 and 0.005 - 5 are all above the
\* halfway point in magnitude, so toFixed(2) and the DECIMAL(10,2) column
\* both round them away from zero, as RoundHundredths does.
EditRequests ==
  {StockEdit(id, quantity, "supplier_add", "undefined", "u2") :
     id \in {"p1", "p2", "px"}, quantity \in {5000, 7000, 5004, 5}}
  \cup {StockEdit("p1", 7000, "CORRECT_ENTRY_ERROR", reason, "u2") :
          reason \in {"undefined", " ", "typo"}}
  \cup {StockEdit("p1", 7000, type, "typo", "") : type \in {"", "sale_reversal", "supplier_add"}}
  \cup {[NoEdit EXCEPT !.id = "p1", !.stock = "NaN", !.stockAdjustmentType = "supplier_add"],
        [NoEdit EXCEPT !.id = "p1"],
        [NoEdit EXCEPT !.id = "p1", !.name = "Soap"],
        [NoEdit EXCEPT !.id = "p1", !.name = " "],
        [NoEdit EXCEPT !.id = "p1", !.sku = " "],
        [NoEdit EXCEPT !.id = "p1", !.costPrice = "NaN"],
        [NoEdit EXCEPT !.id = "p1", !.sellingPrice = "NaN"]}

\* the reversal requests served between stock edits
LedgerRequests ==
  [id : {SaleA, SaleB}, userId : {"u1"}, paymentMethod : {""},
   itemsProvided : {FALSE}, items : {<<>>}]
  \cup
  [id : {SaleA}, userId : {"u1"}, paymentMethod : {""},
   itemsProvided : {TRUE},
   items : {<<Entry("i1", "p1", 1000)>>, <<Entry("", "p1", 4)>>,
            <<Entry("i1", "p1", 4), Entry("i2", "p1", 4)>>,
            <<Entry("", "p2", 500)>>}]

\* requests served one at a time
Next ==
  \/ Reverse(1, ReverseRequests, TRUE)
  \/ Tick

Spec == Init /\ [][Next]_vars

\* the requests two callers send at the same time
ConcurrentRequests ==
  [id : {SaleA, SaleB}, userId : {"u1"}, paymentMethod : {""},
   itemsProvided : {FALSE}, items : {<<>>}]
  \cup
  [id : {SaleA}, userId : {"u1"}, paymentMethod : {""},
   itemsProvided : {TRUE},
   items : {<<Entry("i1", "p1", 1000)>>, <<Entry("", "p1", 2000)>>}]

\* requests served concurrently: the steps of the two transactions interleave
NextConc ==
  \/ \E p \in Procs : Reverse(p, ConcurrentRequests, FALSE)
  \/ Tick

SpecConc == Init /\ [][NextConc]_vars

\* reversals and manual stock edits, served one at a time
NextLedger ==
  \/ Reverse(1, LedgerRequests, TRUE)
  \/ Edit(EditRequests, TRUE)
  \/ Tick

SpecLedger == Init /\ [][NextLedger]_vars

\* the product ids DELETE requests name
DeleteIds == {"p1", "p2", "px"}

\* full reversal requests and PATCH bodies that set a stock of 7 units: no
\* quantity of theirs has more than two decimals
WholeReversals ==
  [id : {SaleA, SaleB}, userId : {"u1"}, paymentMethod : {""},
   itemsProvided : {FALSE}, items : {<<>>}]

WholeEdits ==
  {StockEdit(id, 7000, "supplier_add", "undefined", "u2") : id \in {"p1", "p2"}}

\* reversals, manual stock edits and product deletions, served one at a time
NextDelete ==
  \/ Reverse(1, WholeReversals, TRUE)
  \/ Edit(WholeEdits, TRUE)
  \/ Delete(DeleteIds, TRUE)
  \/ Tick

SpecDelete == Init /\ [][NextDelete]_vars

\* a reversal and a manual stock edit served concurrently: the steps of the
\* two transactions interleave
NextMixed ==
  \/ Reverse(1, WholeReversals, FALSE)
  \/ Edit(WholeEdits, FALSE)
  \/ Tick

SpecMixed == Init /\ [][NextMixed]_vars

\* a store with two sales, the id of one being the id of the other followed
\* by "-c"; each sold 1 unit of p1 at 1.00
SaleShort == <<"b">>

SaleShortOriginal ==
  OriginalSale(SaleShort, <<"S", "3">>, 0, "CASH", <<Item("i8", "p1", 1000, 1000)>>)

InitPrefix ==
  /\ products = {"p1", "p2"}
  /\ sales = <<SaleShortOriginal, SaleBOriginal>>
  /\ stock \in InitialStocks
  /\ adjustments = <<InitialAdjustment("p1", 5000)>>
  /\ now = 0
  /\ tx = [p \in Procs |-> IdleTx]
  /\ resp = [p \in Procs |-> NoResponse]
  /\ edit = IdleEdit
  /\ editResp = NoEditResponse

PrefixRequests ==
  [id : {SaleShort, SaleB}, userId : {"u1"}, paymentMethod : {"", "card"},
   itemsProvided : {FALSE}, items : {<<>>}]
  \cup
  [id : {SaleShort, SaleB}, userId : {"u1"}, paymentMethod : {""},
   itemsProvided : {TRUE}, items : {<<Entry("", "p1", 500)>>, <<Entry("", "p1", 1000)>>}]

NextPrefix ==
  \/ Reverse(1, PrefixRequests, TRUE)
  \/ Tick

SpecPrefix == InitPrefix /\ [][NextPrefix]_vars

\* requests with an entry for line i2 and an entry for its product p1, in
\* either order, and requests with one of the two entries
PairRequests ==
  [id : {SaleA}, userId : {"u1"}, paymentMethod : {""}, itemsProvided : {TRUE},
   items : {<<Entry("i2", "p1", a), Entry("", "p1", b)>> : a, b \in {1000, 2000}}
           \cup {<<Entry("", "p1", 1000), Entry("i2", "p1", 1000)>>,
                 <<Entry("i2", "p1", 1000)>>, <<Entry("", "p1", 1000)>>}]

NextPair ==
  \/ Reverse(1, PairRequests, TRUE)
  \/ Tick

SpecPair == Init /\ [][NextPair]_vars

\* on sale "a" only requests that name line i2, by saleItemId: every reversal
\* of sale "a" is then a reversal of line i2
LineRequests ==
  [id : {SaleA}, userId : {"u1"}, paymentMethod : {""}, itemsProvided : {TRUE},
   items : {<<Entry("i2", "p1", q)>> : q \in {1000, 2000}}]
  \cup
  [id : {SaleB}, userId : {"u1"}, paymentMethod : {"", "card"},
   itemsProvided : {FALSE}, items : {<<>>}]

NextLine ==
  \/ Reverse(1, LineRequests, TRUE)
  \/ Tick

SpecLine == Init /\ [][NextLine]_vars

\* ============================================================== properties
\* The reversal sales made for the sale with this id: receipt number
\* REV-<id>-<time>-<random>.
ReversalsOf(id) ==
  SelectSeq(sales, LAMBDA sale : /\ startsWith(sale.receiptNumber, REV \o id \o <<"-">>)
                                 /\ Len(sale.receiptNumber) = Len(id) + 8)

\* a sale whose receipt number carries the reversal prefix
ReversalSale(sale) ==
  Len(sale.receiptNumber) >= 4 /\ SubSeq(sale.receiptNumber, 1, 4) = <<"R", "E", "V", "-">>

Originals == {i \in 1..Len(sales) : ~ReversalSale(sales[i])}

Reversals == {i \in 1..Len(sales) : ReversalSale(sales[i])}

\* quantity the lines of a sale carry in a (productId, price in cents) tier
QuantityInTier(items, key) ==
  SumSeq([i \in 1..Len(items) |-> IF Key(items[i]) = key THEN items[i].quantity ELSE 0])

ItemsOf(saleSeq) == Flatten([i \in 1..Len(saleSeq) |-> saleSeq[i].items])

Tiers(items) == {Key(items[i]) : i \in 1..Len(items)}

SoldInTier(sale, key) == QuantityInTier(sale.items, key)

ReversedInTier(sale, key) == -QuantityInTier(ItemsOf(ReversalsOf(sale.id)), key)

RemainingInTier(sale, key) == SoldInTier(sale, key) - ReversedInTier(sale, key)

\* C1: with reversal requests served one after the other, in every tier
\* (productId, unit price in cents) of every original sale the quantity its
\* reversal lines give back is at most the quantity its own lines sold.
Conservation ==
  \A i \in Originals :
    \A key \in Tiers(sales[i].items) \cup Tiers(ItemsOf(ReversalsOf(sales[i].id))) :
      RemainingInTier(sales[i], key) >= 0

\* C1 witness: a sale reversed twice, a tier of it given back completely
ConservationWitness ==
  \E i \in Originals :
    /\ Len(ReversalsOf(sales[i].id)) = 2
    /\ \E key \in Tiers(sales[i].items) :
         /\ SoldInTier(sales[i], key) > 0
         /\ RemainingInTier(sales[i], key) = 0

\* C2: with two reversal requests served concurrently, whatever the
\* interleaving of their transaction steps, the quantity reversed in a tier
\* of an original sale never exceeds the quantity sold in it.
NoConcurrentOverReversal ==
  \A i \in Originals :
    \A key \in Tiers(sales[i].items) :
      ReversedInTier(sales[i], key) <= SoldInTier(sales[i], key)

\* sum of quantityChange over the StockAdjustment rows of a product
LedgerSum(productId) ==
  SumSeq([i \in 1..Len(adjustments) |->
            IF adjustments[i].productId = productId
              THEN adjustments[i].quantityChange ELSE 0])

\* C4: with reversals and manual stock edits served one at a time, the
\* quantity of every Stock row equals the sum of quantityChange over the
\* StockAdjustment rows of its product.
LedgerConsistency ==
  \A productId \in DOMAIN stock : stock[productId] = LedgerSum(productId)

\* C4 witness: a product whose stock a manual edit has set and a reversal has
\* then raised, and a Stock row that an edit created
LedgerConsistencyWitness ==
  /\ \E i, j \in 1..Len(adjustments) :
       /\ i < j
       /\ adjustments[i].productId = adjustments[j].productId
       /\ adjustments[i].type = "SUPPLIER_ADD"
       /\ adjustments[j].type = "SALE_REVERSAL"
       /\ adjustments[j].quantityChange > 0
  /\ editResp.status = 200

\* the products the lines of a reversal name
ProductsOf(lines) == {lines[i].productId : i \in 1..Len(lines)}

\* the step by which the reversal of slot p becomes visible, whole: the Sale
\* with one SaleItem per line, the stock of exactly the touched products
\* raised, one SALE_REVERSAL row per touched product
WholeReversal(p) ==
  LET t == tx[p]
      touched == ProductsOf(t.linesToReverse)
      reversal == sales'[Len(sales')]
      added == SubSeq(adjustments', Len(adjustments) + 1, Len(adjustments'))
  IN /\ t.pc = "commit"
     /\ resp'[p].status = 201
     /\ products' = products
     /\ Len(sales') = Len(sales) + 1
     /\ SubSeq(sales', 1, Len(sales)) = sales
     /\ ReversalSale(reversal)
     /\ Len(t.linesToReverse) > 0
     /\ Len(reversal.items) = Len(t.linesToReverse)
     /\ \A i \in 1..Len(reversal.items) :
          reversal.items[i].productId = t.linesToReverse[i].productId
     /\ DOMAIN stock' = DOMAIN stock
     /\ touched \subseteq DOMAIN stock
     /\ \A productId \in DOMAIN stock \ touched : stock'[productId] = stock[productId]
     /\ \A productId \in touched :
          stock'[productId] =
            RoundHundredths(stock[productId]
              + SumSeq([i \in 1..Len(t.linesToReverse) |->
                          IF t.linesToReverse[i].productId = productId
                            THEN t.linesToReverse[i].quantityToReverse ELSE 0]))
     /\ SubSeq(adjustments', 1, Len(adjustments)) = adjustments
     /\ Len(added) = Cardinality(touched)
     /\ \A productId \in touched :
          \E i \in 1..Len(added) :
            added[i].productId = productId /\ added[i].type = "SALE_REVERSAL"

\* C3: with requests served concurrently, every step that changes the Sale,
\* SaleItem, Stock or StockAdjustment rows is the commit of one reversal
\* and adds all of its rows at once (the sale with all its items, the stock
\* of all touched products, one SALE_REVERSAL row for each); every step that
\* answers a request with an error, a failure or timeout at any point of the
\* transaction included, leaves all the rows as they were.
Atomicity ==
  [][ /\ db' # db => \E p \in Procs : WholeReversal(p)
      /\ \A p \in Procs :
           (resp'[p] # resp[p] /\ resp'[p].status # 201) => db' = db ]_vars

\* C3 witness: a transaction between the stock updates of two products and
\* their adjustment rows, with a stock update and an adjustment row pending,
\* while the committed rows show nothing of it
AtomicityWitness ==
  \E p \in Procs :
    /\ tx[p].pc = "createAdjustment"
    /\ tx[p].k = 2
    /\ Len(tx[p].adjusted) = 1
    /\ \E productId \in DOMAIN tx[p].updated : tx[p].updated[productId] # stock[productId]
    /\ Reversals = {}
    /\ Len(adjustments) = 1

\* the entries of a request that pass the filter on productId and quantity
Asked(req) == SelectSeq(req.items, LAMBDA e : e.productId # "" /\ e.quantity > 0)

\* at least one reversal of the sale is stored and nothing remains in any tier
Depleted(sale) ==
  /\ Len(ReversalsOf(sale.id)) > 0
  /\ \A key \in Tiers(sale.items) : RemainingInTier(sale, key) = 0

\* the step that ends the allocation of slot p, the transaction not failing
Allocated(p) ==
  /\ tx[p].pc = "findMany"
  /\ tx'[p].pc # "findMany"
  /\ resp'[p].error # ErrUnable

NamesLine(sale, e) ==
  e.saleItemId # "" /\ \E j \in 1..Len(sale.items) : sale.items[j].id = e.saleItemId

NamesProduct(sale, e) ==
  e.saleItemId = "" /\ \E j \in 1..Len(sale.items) : sale.items[j].productId = e.productId

\* the message a request on a sale with nothing remaining is answered with
DepletedMessage(sale, req) ==
  LET asked == Asked(req)
  IN IF ~req.itemsProvided THEN ErrNothingLeft
     ELSE IF \E i \in 1..Len(asked) : NamesLine(sale, asked[i]) THEN ErrExceeds
     ELSE IF \E i \in 1..Len(asked) :
               ~NamesLine(sale, asked[i]) /\ ~NamesProduct(sale, asked[i])
       THEN ErrNotPartOfSale
     ELSE ErrExceeds

\* C5 as stated: once the reversals of a sale have consumed all that remained
\* of every line, every further request on it, full or naming lines or
\* products of the sale with a positive quantity, is answered 'Nothing left
\* to reverse for this sale.' and changes no row.
AlwaysNothingLeft ==
  [][ \A p \in Procs :
        (/\ Allocated(p)
         /\ Depleted(tx[p].sale)
         /\ \A i \in 1..Len(Asked(tx[p].req)) :
              \/ NamesLine(tx[p].sale, Asked(tx[p].req)[i])
              \/ NamesProduct(tx[p].sale, Asked(tx[p].req)[i]))
        => /\ resp'[p].status = 400
           /\ resp'[p].error = ErrNothingLeft
           /\ tx'[p].pc = "idle"
           /\ db' = db ]_vars

\* C5 amended: once the reversals of a sale have consumed all that remained
\* of every line, every further request on it is answered with status 400
\* and changes no row; the message is 'Nothing left to reverse' for a request
\* without items, 'Requested reversal quantity exceeds remaining sold
\* quantity.' for a request naming lines or products of the sale, and
\* 'Requested reversal item is not part of the sale.' when an entry is on no
\* line of the sale and no entry names one of its lines.
NoDoubleReversal ==
  [][ \A p \in Procs :
        (Allocated(p) /\ Depleted(tx[p].sale))
        => /\ resp'[p].status = 400
           /\ resp'[p].error = DepletedMessage(tx[p].sale, tx[p].req)
           /\ tx'[p].pc = "idle"
           /\ db' = db ]_vars

\* C5 witness: the last request on sale "a", which has nothing remaining, was
\* answered that the quantity exceeds what remains
NoDoubleReversalWitness ==
  /\ resp[1].id = SaleA
  /\ resp[1].status = 400
  /\ resp[1].error = ErrExceeds
  /\ \E i \in Originals : sales[i].id = SaleA /\ Depleted(sales[i])

\* what remains of line j of a sale: the reversed quantity of its tier is
\* charged to the lines of the tier in their order on the sale
LineRemaining(sale, j) ==
  LET key == Key(sale.items[j])
      earlier == SumSeq([i \in 1..(j - 1) |->
                           IF Key(sale.items[i]) = key THEN sale.items[i].quantity ELSE 0])
      charged == Min(Max(ReversedInTier(sale, key) - earlier, 0), sale.items[j].quantity)
  IN sale.items[j].quantity - charged

\* the quantity a request asks of the line with this id
RequestedOfLine(req, id) ==
  SumSeq([i \in 1..Len(Asked(req)) |->
            IF Asked(req)[i].saleItemId = id THEN Asked(req)[i].quantity ELSE 0])

\* C6: a request that asks of a line, by saleItemId, more than the line has
\* remaining is answered 400 'Requested reversal quantity exceeds remaining
\* sold quantity.' and changes no row; a request whose one entry asks of a
\* line exactly what it has remaining is accepted for exactly that quantity,
\* and the reversal then stored carries that quantity.
ExceedsIsRejected ==
  [][ \A p \in Procs :
        LET sale == tx[p].sale
            req == tx[p].req
        IN /\ (/\ Allocated(p)
               /\ req.itemsProvided
               /\ \E j \in 1..Len(sale.items) :
                    RequestedOfLine(req, sale.items[j].id) > LineRemaining(sale, j))
              => /\ resp'[p].status = 400
                 /\ resp'[p].error = ErrExceeds
                 /\ tx'[p].pc = "idle"
                 /\ db' = db
           /\ \A j \in 1..Len(sale.items) :
                (/\ Allocated(p)
                 /\ req.itemsProvided
                 /\ Len(Asked(req)) = 1
                 /\ Asked(req)[1].saleItemId = sale.items[j].id
                 /\ Asked(req)[1].quantity = LineRemaining(sale, j))
                => /\ tx'[p].pc = "findStock"
                   /\ tx'[p].linesToReverse =
                        <<[productId |-> sale.items[j].productId,
                           quantityToReverse |-> LineRemaining(sale, j),
                           unitPrice |-> sale.items[j].price]>>
           /\ (tx[p].pc = "commit" /\ resp'[p].status = 201)
              => /\ Len(resp'[p].reversal.items) = Len(tx[p].linesToReverse)
                 /\ \A i \in 1..Len(tx[p].linesToReverse) :
                      resp'[p].reversal.items[i].quantity =
                        RoundHundredths(-tx[p].linesToReverse[i].quantityToReverse) ]_vars

\* C6 witness: with 6 of the 10 units of line i1 remaining, a request for 6
\* units of line i1 has been accepted for 6 units
ExceedsIsRejectedWitness ==
  /\ tx[1].pc = "findStock"
  /\ tx[1].req.items = <<Entry("i1", "p1", 6000)>>
  /\ tx[1].sale.items[1].quantity = 10000
  /\ LineRemaining(tx[1].sale, 1) = 6000
  /\ tx[1].linesToReverse[1].quantityToReverse = 6000

\* the messages of a rejected request body
BodyErrors == {ErrSaleIdRequired, ErrUserIdRequired, ErrPaymentMethod, ErrSelectItem}

\* C7: no transaction goes beyond reading a target sale whose receipt number
\* starts with REV-; a request on such a sale is answered 400, with 'Cannot
\* reverse a reversal sale.' unless its body is rejected first; and no
\* reversal sale has a receipt number that names a reversal sale as its
\* original.
NoReversalOfReversal ==
  /\ \A p \in Procs : tx[p].pc # "idle" => ~ReversalSale(tx[p].sale)
  /\ \A p \in Procs :
       (resp[p].status # 0 /\ \E i \in Reversals : sales[i].id = resp[p].id)
       => /\ resp[p].status = 400
          /\ resp[p].error \in {ErrReverseReversal} \cup BodyErrors
  /\ \A i \in Reversals : \A j \in Reversals :
       ~startsWith(sales[i].receiptNumber, REV \o sales[j].id \o <<"-">>)

\* C7 witness: a request on a stored reversal sale has been answered 'Cannot
\* reverse a reversal sale.'
NoReversalOfReversalWitness ==
  \E p \in Procs :
    /\ resp[p].status = 400
    /\ resp[p].error = ErrReverseReversal
    /\ \E i \in Reversals : sales[i].id = resp[p].id

\* the quantity the stored lines of a reversal give back of a product
GivenBack(reversal, productId) ==
  -SumSeq([i \in 1..Len(reversal.items) |->
             IF reversal.items[i].productId = productId
               THEN reversal.items[i].quantity ELSE 0])

\* C8: the commit of a reversal raises the stock of each product its lines
\* name by the sum of the quantities of those lines, appends one
\* SALE_REVERSAL row per such product with that sum as quantityChange and the
\* acting user as userId, and leaves the stock and the rows of every other
\* product unchanged.
StockFollowsReversal ==
  [][ \A p \in Procs :
        (tx[p].pc = "commit" /\ resp'[p].status = 201)
        => LET reversal == resp'[p].reversal
               touched == ProductsOf(reversal.items)
               added == SubSeq(adjustments', Len(adjustments) + 1, Len(adjustments'))
           IN /\ DOMAIN stock' = DOMAIN stock
              /\ touched \subseteq DOMAIN stock
              /\ \A productId \in touched :
                   stock'[productId] = stock[productId] + GivenBack(reversal, productId)
              /\ \A productId \in DOMAIN stock \ touched :
                   stock'[productId] = stock[productId]
              /\ SubSeq(adjustments', 1, Len(adjustments)) = adjustments
              /\ Len(added) = Cardinality(touched)
              /\ \A productId \in touched :
                   \E i \in 1..Len(added) :
                     /\ added[i].productId = productId
                     /\ added[i].type = "SALE_REVERSAL"
                     /\ added[i].quantityChange = GivenBack(reversal, productId)
                     /\ added[i].userId = tx[p].req.userId ]_vars

\* the subtotal in cents of the lines of a reversal, each line rounded
RoundedSubtotalCents(lines) ==
  SumSeq([i \in 1..Len(lines) |->
            MathRound(toCents(lines[i].unitPrice) * lines[i].quantityToReverse, 1000)])

\* the discount in cents of the lines of a reversal, each line taking its
\* share by value of the discount of the original sale
RoundedDiscountCents(sale, lines) ==
  SumSeq([i \in 1..Len(lines) |->
            IF toCents(sale.subtotal) > 0
              THEN MathRound(MathRound(toCents(lines[i].unitPrice)
                                         * lines[i].quantityToReverse, 1000)
                               * toCents(sale.discount),
                             toCents(sale.subtotal))
              ELSE 0])

\* C9 as stated, for quantities in whole hundredths of a unit: the subtotal
\* of a stored reversal is minus the sum over its lines of unitPriceCents x
\* quantityToReverse, taken without rounding, and its discount is minus the
\* sum over its lines of the rounded share lineSubtotalCents x
\* originalDiscountCents / originalSubtotalCents.
ReversalTotalsUnrounded ==
  [][ \A p \in Procs :
        (/\ tx[p].pc = "commit" /\ resp'[p].status = 201
         /\ \A i \in 1..Len(tx[p].linesToReverse) :
              tx[p].linesToReverse[i].quantityToReverse % 10 = 0)
        => LET lines == tx[p].linesToReverse
               sale == tx[p].sale
               reversal == resp'[p].reversal
           IN /\ reversal.subtotal * 100 =
                   -SumSeq([i \in 1..Len(lines) |->
                              toCents(lines[i].unitPrice) * lines[i].quantityToReverse])
              /\ reversal.discount =
                   -10 * SumSeq([i \in 1..Len(lines) |->
                                   IF toCents(sale.subtotal) > 0
                                     THEN MathRound(toCents(lines[i].unitPrice)
                                                      * lines[i].quantityToReverse
                                                      * toCents(sale.discount),
                                                    1000 * toCents(sale.subtotal))
                                     ELSE 0]) ]_vars

\* C9 amended: with lineSubtotalCents = round(unitPriceCents x
\* quantityToReverse) for each line, the stored reversal has subtotal =
\* -(sum of lineSubtotalCents), discount = -(sum of round(lineSubtotalCents x
\* originalDiscountCents / originalSubtotalCents)), 0 per line when the
\* original subtotal is 0, and totalAmount = subtotal - discount; reversing 4
\* of 10 units at 2.00 of a sale with discount 1.00 stores -8.00, -0.40, -7.60.
ReversalTotals ==
  [][ \A p \in Procs :
        (tx[p].pc = "commit" /\ resp'[p].status = 201)
        => LET lines == tx[p].linesToReverse
               sale == tx[p].sale
               reversal == resp'[p].reversal
           IN /\ reversal = sales'[Len(sales')]
              /\ reversal.subtotal = -10 * RoundedSubtotalCents(lines)
              /\ reversal.discount = -10 * RoundedDiscountCents(sale, lines)
              /\ reversal.totalAmount = reversal.subtotal - reversal.discount
              /\ (/\ sale.subtotal = 20000 /\ sale.discount = 1000
                  /\ Len(lines) = 1 /\ lines[1].quantityToReverse = 4000
                  /\ lines[1].unitPrice = 2000)
                 => /\ reversal.subtotal = -8000
                    /\ reversal.discount = -400
                    /\ reversal.totalAmount = -7600 ]_vars

\* C9 witness: 4 of the 10 units at 2.00 reversed, stored as -8.00, -0.40, -7.60
ReversalTotalsWitness ==
  /\ resp[1].status = 201
  /\ resp[1].reversal = sales[Len(sales)]
  /\ Len(resp[1].reversal.items) = 1
  /\ resp[1].reversal.items[1].quantity = -4000
  /\ resp[1].reversal.subtotal = -8000
  /\ resp[1].reversal.discount = -400
  /\ resp[1].reversal.totalAmount = -7600

\* C10: every stored reversal sale has subtotal, discount and totalAmount at
\* most 0 with totalAmount = subtotal - discount, and every one of its items
\* has a quantity below 0 and total = quantity x price.
ReversalAmounts ==
  \A i \in Reversals :
    /\ sales[i].subtotal <= 0
    /\ sales[i].discount <= 0
    /\ sales[i].totalAmount <= 0
    /\ sales[i].totalAmount = sales[i].subtotal - sales[i].discount
    /\ \A j \in 1..Len(sales[i].items) :
         /\ sales[i].items[j].quantity < 0
         /\ sales[i].items[j].total * 1000 = sales[i].items[j].quantity * sales[i].items[j].price

\* ------------------------------------------------- C11: discount shares
\* sales of up to three lines of one unit at 0.01, 0.03 or 1.00, with a
\* discount of 0.01, 0.02 or 0.50
DiscountPrices == {10, 30, 1000}

DiscountLines ==
  {<<Item("i1", "p1", 1000, a)>> : a \in DiscountPrices}
  \cup {<<Item("i1", "p1", 1000, a), Item("i2", "p1", 1000, b)>> :
          a \in DiscountPrices, b \in DiscountPrices}
  \cup {<<Item("i1", "p1", 1000, a), Item("i2", "p1", 1000, b), Item("i3", "p2", 1000, c)>> :
          a \in DiscountPrices, b \in DiscountPrices, c \in DiscountPrices}

DiscountSales ==
  {OriginalSale(SaleA, <<"S", "1">>, discount, "CASH", items) :
     discount \in {10, 20, 500}, items \in DiscountLines}

InitDiscount ==
  /\ products = {"p1", "p2"}
  /\ \E saleA \in DiscountSales : sales = <<saleA, SaleBOriginal>>
  /\ stock = ("p1" :> 5000) @@ ("p2" :> 0)
  /\ adjustments = <<InitialAdjustment("p1", 5000)>>
  /\ now = 0
  /\ tx = [p \in Procs |-> IdleTx]
  /\ resp = [p \in Procs |-> NoResponse]
  /\ edit = IdleEdit
  /\ editResp = NoEditResponse

\* full reversals, and reversals of one line or of two
DiscountRequests ==
  [id : {SaleA}, userId : {"u1"}, paymentMethod : {""},
   itemsProvided : {FALSE}, items : {<<>>}]
  \cup
  [id : {SaleA}, userId : {"u1"}, paymentMethod : {""},
   itemsProvided : {TRUE},
   items : {<<Entry("i1", "p1", 1000)>>, <<Entry("i2", "p1", 1000)>>,
            <<Entry("i1", "p1", 1000), Entry("i3", "p2", 1000)>>}]

NextDiscount ==
  \/ Reverse(1, DiscountRequests, TRUE)
  \/ Tick

SpecDiscount == InitDiscount /\ [][NextDiscount]_vars

\* the original sale a response is about
OriginalOf(id) == CHOOSE sale \in {sales[i] : i \in Originals} : sale.id = id

AbsoluteValue(x) == IF x < 0 THEN -x ELSE x

\* by how many cents the discount of a created reversal, the sum of the
\* shares of its lines, is off the share of the reversed subtotal taken at once
DiscountGap(reversal, sale) ==
  AbsoluteValue((-reversal.discount) \div 10
                - MathRound(((-reversal.subtotal) \div 10) * toCents(sale.discount),
                            toCents(sale.subtotal)))

\* C11: for every created reversal of a sale with a subtotal above 0, with n
\* lines, the sum of the discounts of its lines, in cents, differs from
\* round(reversed subtotal x original discount / original subtotal) by at
\* most n.
DiscountShares ==
  \A p \in Procs :
    (resp[p].status = 201 /\ OriginalOf(resp[p].id).subtotal > 0)
    => DiscountGap(resp[p].reversal, OriginalOf(resp[p].id))
         <= Len(resp[p].reversal.items)

\* C11 witness: a reversal of two lines whose shares, each rounded, sum to a
\* cent more or less than the share of their subtotal
DiscountSharesWitness ==
  /\ resp[1].status = 201
  /\ Len(resp[1].reversal.items) = 2
  /\ OriginalOf(resp[1].id).subtotal > 0
  /\ DiscountGap(resp[1].reversal, OriginalOf(resp[1].id)) = 1

\* C12: every StockAdjustment row satisfies quantityAfter = quantityBefore +
\* quantityChange, whether a reversal or a manual stock edit wrote it.
RowIdentity ==
  \A i \in 1..Len(adjustments) :
    adjustments[i].quantityAfter = adjustments[i].quantityBefore + adjustments[i].quantityChange

\* C13: the reversesSaleId of every 201 response, parsed from the receipt
\* number generated for the reversal, is the id of the sale that was
\* reversed, whatever characters that id contains.
ReceiptRoundTrip ==
  \A p \in Procs : resp[p].status = 201 => resp[p].reversesSaleId = resp[p].id

\* C14: whatever time and random suffix a reversal draws, the receipt number
\* it generates is the receipt number of no stored sale, so tx.sale.create
\* never fails on the unique index of receiptNumber.
ReceiptNumbersDiffer ==
  \A p \in Procs :
    tx[p].pc = "createSale"
    => \A random \in 0..MaxRandom :
         \A i \in 1..Len(sales) :
           sales[i].receiptNumber # ReceiptNumber(tx[p].req.id, now, random)

\* the lines a reversal of everything that remains of a sale consists of: one
\* per line of the sale with something remaining, for what remains of it
RECURSIVE RemainingLines(_, _)
RemainingLines(sale, j) ==
  IF j > Len(sale.items) THEN <<>>
  ELSE (IF LineRemaining(sale, j) > 0
          THEN <<[productId |-> sale.items[j].productId,
                  quantityToReverse |-> LineRemaining(sale, j),
                  unitPrice |-> sale.items[j].price]>>
          ELSE <<>>)
       \o RemainingLines(sale, j + 1)

\* C15: a request without an items field on a sale with something remaining
\* is allocated, for every line of the sale, exactly what remains of the
\* line, lines with nothing remaining left out; once its reversal is stored,
\* nothing remains in any tier of the sale.
FullReversal ==
  [][ \A p \in Procs :
        /\ (/\ Allocated(p)
            /\ ~tx[p].req.itemsProvided
            /\ RemainingLines(tx[p].sale, 1) # <<>>)
           => /\ tx'[p].pc = "findStock"
              /\ tx'[p].linesToReverse = RemainingLines(tx[p].sale, 1)
        /\ (/\ tx[p].pc = "commit"
            /\ ~tx[p].req.itemsProvided
            /\ resp'[p].status = 201)
           => \A i \in Originals :
                sales[i].id = tx[p].req.id
                => \A key \in Tiers(sales[i].items) :
                     RemainingInTier(sales[i], key)' = 0 ]_vars

\* what the handler decides for a request in the current state of the store,
\* up to the end of the allocation: the error it answers with, or the lines
\* it goes on to reverse
Outcome(req) ==
  LET invalid == ValidationError(req)
      found == findUnique(req.id)
  IN IF invalid # "" THEN [error |-> invalid, linesToReverse |-> <<>>]
     ELSE IF found = <<>> THEN [error |-> ErrSaleNotFound, linesToReverse |-> <<>>]
     ELSE IF isReversal(found[1]) THEN [error |-> ErrReverseReversal, linesToReverse |-> <<>>]
     ELSE LET allocation == Allocate(found[1], existingReversals(req.id), req)
          IN [error |-> allocation.error,
              linesToReverse |-> IF allocation.error = ""
                                   THEN allocation.linesToReverse ELSE <<>>]

FullRequest(id) ==
  [id |-> id, userId |-> "u1", paymentMethod |-> "", itemsProvided |-> FALSE, items |-> <<>>]

\* C16: on every original sale, a request whose items field is an empty list
\* is decided exactly as the request without an items field: same lines to
\* reverse, or same error.
EmptyItemsIsFull ==
  \A i \in Originals :
    Outcome([FullRequest(sales[i].id) EXCEPT !.itemsProvided = TRUE])
      = Outcome(FullRequest(sales[i].id))

\* an entry that names a line, or without saleItemId a product, the sale has not
OffSale(sale, e) == ~NamesLine(sale, e) /\ ~NamesProduct(sale, e)

\* some entry asks of a line of the sale, by saleItemId, more than remains of it
AsksBeyondLine(sale, req) ==
  \E j \in 1..Len(sale.items) :
    RequestedOfLine(req, sale.items[j].id) > LineRemaining(sale, j)

\* C17 as stated: a request with an entry that is on no line of the sale is
\* answered 400 'Requested reversal item is not part of the sale.' and changes
\* no row, whatever its other entries.
NotOnSaleAlways ==
  [][ \A p \in Procs :
        (/\ Allocated(p)
         /\ tx[p].req.itemsProvided
         /\ \E i \in 1..Len(Asked(tx[p].req)) : OffSale(tx[p].sale, Asked(tx[p].req)[i]))
        => /\ resp'[p].status = 400
           /\ resp'[p].error = ErrNotPartOfSale
           /\ tx'[p].pc = "idle"
           /\ db' = db ]_vars

\* C17 amended: a request with an entry that is on no line of the sale is
\* answered 400 and changes no row; the message is 'Requested reversal item
\* is not part of the sale.' unless another entry asks of a line, by
\* saleItemId, more than remains of it, and then it is 'Requested reversal
\* quantity exceeds remaining sold quantity.'.
NotOnSale ==
  [][ \A p \in Procs :
        (/\ Allocated(p)
         /\ tx[p].req.itemsProvided
         /\ \E i \in 1..Len(Asked(tx[p].req)) : OffSale(tx[p].sale, Asked(tx[p].req)[i]))
        => /\ resp'[p].status = 400
           /\ resp'[p].error = IF AsksBeyondLine(tx[p].sale, tx[p].req)
                                 THEN ErrExceeds ELSE ErrNotPartOfSale
           /\ tx'[p].pc = "idle"
           /\ db' = db ]_vars

\* C17 witness: a request with an entry for product "px", on no sale, and an
\* entry for a line of the sale within what remains of it, about to be
\* answered that an item is not part of the sale
NotOnSaleWitness ==
  /\ tx[1].pc = "findMany"
  /\ Len(Asked(tx[1].req)) = 2
  /\ Asked(tx[1].req)[1].saleItemId = ""
  /\ OffSale(tx[1].sale, Asked(tx[1].req)[1])
  /\ NamesLine(tx[1].sale, Asked(tx[1].req)[2])
  /\ ~AsksBeyondLine(tx[1].sale, tx[1].req)
  /\ Outcome(tx[1].req).error = ErrNotPartOfSale

\* the messages of the business rules of the allocation
RuleErrors == {ErrReverseReversal, ErrExceeds, ErrNotPartOfSale, ErrNothingLeft}

\* C18: when the allocation of a request throws 'exceeds remaining', 'not
\* part of the sale' or 'nothing left to reverse', the request is answered
\* with status 400 and that very message; a request with a valid body on a
\* reversal sale is answered 400 'Cannot reverse a reversal sale.'; none of
\* them gets status 500 or 'Unable to reverse sale.'.
SpecificMessages ==
  [][ \A p \in Procs :
        /\ (/\ FindReversals(p)
            /\ Allocate(tx[p].sale, existingReversals(tx[p].req.id), tx[p].req).error
                 \in RuleErrors)
           => /\ resp'[p].status = 400
              /\ resp'[p].error =
                   Allocate(tx[p].sale, existingReversals(tx[p].req.id), tx[p].req).error
              /\ resp'[p].error # ErrUnable
        /\ (/\ tx[p].pc = "idle"
            /\ resp'[p] # resp[p]
            /\ resp'[p].error \notin BodyErrors
            /\ \E i \in Reversals : sales[i].id = resp'[p].id)
           => /\ resp'[p].status = 400
              /\ resp'[p].error = ErrReverseReversal ]_vars

\* C18 witness: the allocation of the last request threw 'not part of the
\* sale' and the request was answered 400 with that message
SpecificMessagesWitness ==
  /\ tx[1].pc = "idle"
  /\ resp[1].id = SaleA
  /\ resp[1].status = 400
  /\ resp[1].error = ErrNotPartOfSale

\* C19: a reversal that finds no Stock row for a product it touches is
\* answered with status 500 and 'Unable to reverse sale.', and writes no row.
MissingStockIsServerError ==
  [][ \A p \in Procs :
        (/\ tx[p].pc = "findStock"
         /\ TouchedProducts(tx[p].linesToReverse, {})[tx[p].k] \notin DOMAIN stock
         /\ tx'[p].pc # "findStock")
        => /\ resp'[p].status = 500
           /\ resp'[p].error = ErrUnable
           /\ tx'[p].pc = "idle"
           /\ db' = db ]_vars

\* the requests without an items field on the sale ids of the store and on
\* the id of no sale, with and without userId, with and without a payment
\* method, valid or not
BodyRequests ==
  [id : TargetIds, userId : {"u1", ""}, paymentMethod : {"", "card", "bitcoin"},
   itemsProvided : {FALSE}, items : {<<>>}]

InvalidPaymentMethod(req) ==
  req.paymentMethod # "" /\ toUpperCase(req.paymentMethod) \notin PaymentMethod

\* C20: the step that takes a request without userId answers it 400 'userId
\* is required.', and the step that takes a request with a userId and a
\* payment method outside CASH, MOBILE_MONEY, CARD, TRANSFER answers it 400
\* 'paymentMethod is invalid.'; whether the target sale exists or is a
\* reversal makes no difference, no transaction is opened and no row changes.
ValidationFirst ==
  [][ \A p \in Procs :
        (tx[p].pc = "idle" /\ resp'[p] # resp[p])
        => \A req \in BodyRequests :
             (resp'[p].id = req.id /\ Begin(p, {req}, FALSE))
             => /\ req.userId = ""
                   => /\ resp'[p] = Rejected(req.id, ErrUserIdRequired)
                      /\ tx' = tx
                      /\ db' = db
                /\ (req.userId # "" /\ InvalidPaymentMethod(req))
                   => /\ resp'[p] = Rejected(req.id, ErrPaymentMethod)
                      /\ tx' = tx
                      /\ db' = db ]_vars

\* C20 witness: a request on a stored reversal sale was answered
\* 'paymentMethod is invalid.', not 'Cannot reverse a reversal sale.'
ValidationFirstWitness ==
  /\ resp[1].status = 400
  /\ resp[1].error = ErrPaymentMethod
  /\ tx[1].pc = "idle"
  /\ \E i \in Reversals : sales[i].id = resp[1].id

\* C21: every StockAdjustment row stays where it is, unchanged, in every
\* later state, whatever request is served: reversal, PATCH or DELETE of a
\* product.
AppendOnly ==
  [][ /\ Len(adjustments') >= Len(adjustments)
      /\ \A i \in 1..Len(adjustments) : adjustments'[i] = adjustments[i] ]_vars

\* C22: with a reversal and a manual stock edit of the same product served
\* concurrently, whatever the interleaving of their steps, the Stock quantity
\* of every product equals the sum of quantityChange over the StockAdjustment
\* rows of the product.
ConcurrentLedger ==
  \A productId \in products :
    productId \in DOMAIN stock => stock[productId] - LedgerSum(productId) = 0

\* C23: the reversal a request on sale Y stores is never among the reversals
\* loaded for another original sale X, also when the id of Y is the id of X
\* followed by "-" and more.
ReversalsOfOtherSales ==
  [][ \A p \in Procs :
        (tx[p].pc = "commit" /\ sales' # sales)
        => \A i \in Originals :
             sales[i].id # tx[p].req.id
             => existingReversals(sales[i].id)' = existingReversals(sales[i].id) ]_vars

\* the request has two entries: one for line j of the sale, by saleItemId, and
\* one for the product of line j, without saleItemId
MixedPair(sale, req, j) ==
  /\ Len(Asked(req)) = 2
  /\ \E a, b \in 1..2 :
       /\ a # b
       /\ Asked(req)[a].saleItemId = sale.items[j].id
       /\ Asked(req)[b].saleItemId = ""
       /\ Asked(req)[b].productId = sale.items[j].productId

\* the quantity a request asks of a product without naming a line
RequestedOfProduct(req, productId) ==
  SumSeq([i \in 1..Len(Asked(req)) |->
            IF Asked(req)[i].saleItemId = "" /\ Asked(req)[i].productId = productId
              THEN Asked(req)[i].quantity ELSE 0])

\* what remains of the lines of the product of line j, line j itself left out
\* or not
RemainingOfProduct(sale, j, withLine) ==
  SumSeq([i \in 1..Len(sale.items) |->
            IF sale.items[i].productId = sale.items[j].productId /\ (withLine \/ i # j)
              THEN LineRemaining(sale, i) ELSE 0])

SumToReverse(lines) == SumSeq([i \in 1..Len(lines) |-> lines[i].quantityToReverse])

\* C24 as stated: a request with an entry for line L of product P and an
\* entry for P is accepted whenever the line entry asks at most what remains
\* of L and the two entries together at most what remains of all lines of P.
MixedUsesLeftover ==
  [][ \A p \in Procs : \A j \in 1..Len(tx[p].sale.items) :
        (/\ Allocated(p)
         /\ tx[p].req.itemsProvided
         /\ MixedPair(tx[p].sale, tx[p].req, j)
         /\ RequestedOfLine(tx[p].req, tx[p].sale.items[j].id)
              <= LineRemaining(tx[p].sale, j)
         /\ RequestedOfLine(tx[p].req, tx[p].sale.items[j].id)
              + RequestedOfProduct(tx[p].req, tx[p].sale.items[j].productId)
              <= RemainingOfProduct(tx[p].sale, j, TRUE))
        => tx'[p].pc = "findStock" ]_vars

\* C24 amended: the line entry is given to L verbatim and the product entry
\* is allocated against the other lines of P only, never against what is left
\* of L: the request is accepted, for the sum of the two quantities, when the
\* line entry asks at most what remains of L and the product entry at most
\* what remains of the other lines of P; otherwise it is answered 400
\* 'Requested reversal quantity exceeds remaining sold quantity.' and changes
\* no row.
MixedEntries ==
  [][ \A p \in Procs : \A j \in 1..Len(tx[p].sale.items) :
        (/\ Allocated(p)
         /\ tx[p].req.itemsProvided
         /\ MixedPair(tx[p].sale, tx[p].req, j))
        => IF /\ RequestedOfLine(tx[p].req, tx[p].sale.items[j].id)
                   <= LineRemaining(tx[p].sale, j)
              /\ RequestedOfProduct(tx[p].req, tx[p].sale.items[j].productId)
                   <= RemainingOfProduct(tx[p].sale, j, FALSE)
             THEN /\ tx'[p].pc = "findStock"
                  /\ SumToReverse(tx'[p].linesToReverse)
                       = RequestedOfLine(tx[p].req, tx[p].sale.items[j].id)
                         + RequestedOfProduct(tx[p].req, tx[p].sale.items[j].productId)
             ELSE /\ resp'[p].status = 400
                  /\ resp'[p].error = ErrExceeds
                  /\ tx'[p].pc = "idle"
                  /\ db' = db ]_vars

\* C24 witness: 1 unit of line i2 and 1 unit of product p1 accepted, the unit
\* of p1 taken from line i1
MixedEntriesWitness ==
  /\ tx[1].pc = "findStock"
  /\ tx[1].req.items = <<Entry("i2", "p1", 1000), Entry("", "p1", 1000)>>
  /\ Len(tx[1].linesToReverse) = 2
  /\ SumToReverse(tx[1].linesToReverse) = 2000

\* the request has one entry, which names a product of the sale and no line
ProductOnly(sale, req) ==
  /\ req.itemsProvided
  /\ Len(Asked(req)) = 1
  /\ NamesProduct(sale, Asked(req)[1])

\* a demand for a product laid over the lines of the product from line j on,
\* in their order on the sale, each line taking what it can of what is left
\* of the demand
RECURSIVE InOrderLines(_, _, _, _)
InOrderLines(sale, productId, demand, j) ==
  IF j > Len(sale.items) THEN <<>>
  ELSE IF sale.items[j].productId # productId
    THEN InOrderLines(sale, productId, demand, j + 1)
  ELSE (IF Min(demand, LineRemaining(sale, j)) > 0
          THEN <<[productId |-> productId,
                  quantityToReverse |-> Min(demand, LineRemaining(sale, j)),
                  unitPrice |-> sale.items[j].price]>>
          ELSE <<>>)
       \o InOrderLines(sale, productId, demand - Min(demand, LineRemaining(sale, j)), j + 1)

RemainingOfProductId(sale, productId) ==
  SumSeq([i \in 1..Len(sale.items) |->
            IF sale.items[i].productId = productId THEN LineRemaining(sale, i) ELSE 0])

\* C25: a request for quantity q of a product of the sale, no line named, is
\* allocated over the lines of the product in their order on the sale, each
\* line receiving the smaller of the demand not yet allocated and what
\* remains of it; with q at most what remains of the lines of the product it
\* is accepted and the lines of the reversal stored sum to q; with q above
\* that it is answered 400 'Requested reversal quantity exceeds remaining sold
\* quantity.' and no row changes.
AllocatedInOrder ==
  [][ \A p \in Procs :
        LET sale == tx[p].sale
            req == tx[p].req
        IN /\ (Allocated(p) /\ ProductOnly(sale, req))
              => IF Asked(req)[1].quantity
                      <= RemainingOfProductId(sale, Asked(req)[1].productId)
                   THEN /\ tx'[p].pc = "findStock"
                        /\ tx'[p].linesToReverse =
                             InOrderLines(sale, Asked(req)[1].productId,
                                          Asked(req)[1].quantity, 1)
                        /\ SumToReverse(tx'[p].linesToReverse) = Asked(req)[1].quantity
                   ELSE /\ resp'[p].status = 400
                        /\ resp'[p].error = ErrExceeds
                        /\ tx'[p].pc = "idle"
                        /\ db' = db
           /\ (tx[p].pc = "commit" /\ resp'[p].status = 201 /\ ProductOnly(sale, req))
              => SumSeq([i \in 1..Len(resp'[p].reversal.items) |->
                           -resp'[p].reversal.items[i].quantity])
                   = Asked(req)[1].quantity ]_vars

\* the tier of a line to reverse
KeyOfLine(line) == <<line.productId, toCents(line.unitPrice)>>

\* C26: every line a request is allocated has the product and the unit price
\* of a line of the sale with at least that quantity remaining, and is stored
\* with that unit price; when the reversal is stored, what remains of every
\* line of the sale in a tier (product, unit price) none of the reversal
\* lines is in stays as it was.
TiersApart ==
  [][ \A p \in Procs :
        /\ (tx[p].pc = "findMany" /\ tx'[p].pc = "findStock")
           => \A i \in 1..Len(tx'[p].linesToReverse) :
                \E j \in 1..Len(tx[p].sale.items) :
                  /\ tx[p].sale.items[j].productId = tx'[p].linesToReverse[i].productId
                  /\ tx[p].sale.items[j].price = tx'[p].linesToReverse[i].unitPrice
                  /\ tx'[p].linesToReverse[i].quantityToReverse
                       <= LineRemaining(tx[p].sale, j)
        /\ (tx[p].pc = "commit" /\ resp'[p].status = 201)
           => /\ \A i \in 1..Len(tx[p].linesToReverse) :
                   /\ resp'[p].reversal.items[i].productId = tx[p].linesToReverse[i].productId
                   /\ resp'[p].reversal.items[i].price = tx[p].linesToReverse[i].unitPrice
              /\ \A k \in Originals :
                   sales[k].id = tx[p].req.id
                   => \A j \in 1..Len(sales[k].items) :
                        (\A i \in 1..Len(tx[p].linesToReverse) :
                           KeyOfLine(tx[p].linesToReverse[i])
                             # <<sales[k].items[j].productId,
                                 toCents(sales[k].items[j].price)>>)
                        => LineRemaining(sales[k], j)' = LineRemaining(sales[k], j) ]_vars

\* C26 witness: on the sale with product p1 at 1.00 and at 0.03, the unit at
\* 0.03 has been reversed and the unit at 1.00 remains
TiersApartWitness ==
  /\ resp[1].status = 201
  /\ Len(resp[1].reversal.items) = 1
  /\ resp[1].reversal.items[1].productId = "p1"
  /\ resp[1].reversal.items[1].price = 30
  /\ resp[1].reversal.items[1].quantity = -1000
  /\ \E k \in Originals :
       /\ sales[k].id = SaleA
       /\ sales[k].items[1].price = 1000
       /\ LineRemaining(sales[k], 1) = 1000
       /\ LineRemaining(sales[k], 2) = 0

GivenBackOfSaleA ==
  SumSeq([i \in 1..Len(ItemsOf(ReversalsOf(SaleA))) |->
            -ItemsOf(ReversalsOf(SaleA))[i].quantity])

ReversalRows(productId) ==
  SelectSeq(adjustments,
            LAMBDA row : row.productId = productId /\ row.type = "SALE_REVERSAL")

\* C28: with two reversals served concurrently, the SALE_REVERSAL rows of
\* every product form a chain: each row starts from the quantity the row
\* before it ended with, and the last row ends with the quantity of the
\* Stock row of the product.
ReversalChain ==
  \A productId \in products :
    /\ \A i \in 2..Len(ReversalRows(productId)) :
         ReversalRows(productId)[i].quantityBefore
           = ReversalRows(productId)[i - 1].quantityAfter
    /\ (ReversalRows(productId) # <<>> /\ productId \in DOMAIN stock)
       => ReversalRows(productId)[Len(ReversalRows(productId))].quantityAfter
            = stock[productId]

\* the sum of a column of the reversal sales of a sale
SumOfReversals(id, column) ==
  SumSeq([i \in 1..Len(ReversalsOf(id)) |->
            CASE column = "subtotal" -> ReversalsOf(id)[i].subtotal
              [] column = "discount" -> ReversalsOf(id)[i].discount
              [] OTHER -> ReversalsOf(id)[i].totalAmount])

\* C29: once the reversals of a sale have given back all that its lines
\* sold, their subtotals sum to minus the subtotal of the sale, their
\* discounts to minus its discount and their totals to minus its total.
SumOfParts ==
  \A k \in Originals :
    Depleted(sales[k])
    => /\ SumOfReversals(sales[k].id, "subtotal") = -sales[k].subtotal
       /\ SumOfReversals(sales[k].id, "discount") = -sales[k].discount
       /\ SumOfReversals(sales[k].id, "totalAmount") = -sales[k].totalAmount

\* a PATCH body that sets the stock as a correction and gives no reason, or
\* a blank one
CorrectionWithoutReason(req) ==
  /\ req.stock = "number"
  /\ toUpperCase(req.stockAdjustmentType) = "CORRECT_ENTRY_ERROR"
  /\ req.reason \in {"undefined", "", " "}

\* C30: every CORRECT_ENTRY_ERROR row has a reason and no other row has one;
\* a stock edit of that type without a reason, or with a blank one, is
\* answered 400, opens no transaction and changes no row; the rows a stock
\* edit commits are never of type SALE or SALE_REVERSAL.
ReasonOnlyForCorrections ==
  /\ [](\A i \in 1..Len(adjustments) :
          IF adjustments[i].type = "CORRECT_ENTRY_ERROR"
            THEN adjustments[i].reason \notin {"", " ", "undefined"}
            ELSE adjustments[i].reason = "")
  /\ [][ /\ \A req \in EditRequests :
              (CorrectionWithoutReason(req) /\ EditBegin({req}, FALSE))
              => /\ editResp'.status = 400
                 /\ edit' = edit
                 /\ db' = db
         /\ edit.pc = "commit"
            => \A i \in (Len(adjustments) + 1)..Len(adjustments') :
                 adjustments'[i].type \notin {"SALE", "SALE_REVERSAL"} ]_vars

\* C30 witness: a correction with the reason "typo" has been committed
ReasonOnlyForCorrectionsWitness ==
  /\ editResp.status = 200
  /\ \E i \in 1..Len(adjustments) :
       /\ adjustments[i].type = "CORRECT_ENTRY_ERROR"
       /\ adjustments[i].reason = "typo"

====
